---- MODULE Spec2Model ----
(***************************************************************************)
(* Model of the completeness core of LegalTechKZ:                          *)
(*   expertise/completeness_validator.py  (CompletenessValidator)          *)
(*   expertise/base_expert.py             (BaseExpertAgent)                *)
(*   expertise/legal_expertise_pipeline.py (LegalExpertisePipeline)        *)
(*   ui/web_integration.py                (WebExpertiseController)         *)
(* A document is represented by the fragment list the parser returns for   *)
(* it.  Article numbers are digit strings; they are modelled as naturals.  *)
(* Texts are sequences of tokens (banners, analysis chunks, whitespace).   *)
(***************************************************************************)
EXTENDS Integers, Sequences, FiniteSets, TLC

\* ---------------------------------------------------------------- bounds
MaxFragments == 2
MaxBatchSize == 2
MaxWorkers == 2
MaxStages == 2
MaxRespLen == 3
MaxCalls == 4
MaxLines == 4

\* ------------------------------------------------------- generic helpers
Min(a, b) == IF a < b THEN a ELSE b

SetMin(S) == CHOOSE x \in S : \A y \in S : x <= y

Range(s) == {s[i] : i \in 1..Len(s)}

SeqsUpTo(S, n) == UNION {[1..k -> S] : k \in 0..n}

\* Optional values (Python None / a value)
None == [some |-> FALSE, v |-> <<>>]

Some(x) == [some |-> TRUE, v |-> x]

\* s is obtained from t by deleting elements (order kept)
RECURSIVE IsSubList(_, _)
IsSubList(s, t) ==
  IF s = <<>> THEN TRUE
  ELSE IF t = <<>> THEN FALSE
  ELSE IF Head(s) = Head(t) THEN IsSubList(Tail(s), Tail(t))
  ELSE IsSubList(s, Tail(t))

\* ------------------------------------------------------------ fragments
\* DocumentFragment, reduced to the fields the completeness core reads.
\* NoParent stands for parent_number = None.
NoParent == 0

DocumentFragment(t, n, p) == [type |-> t, number |-> n, parent_number |-> p]

\* a recognised line of a document: a chapter line or an article line
LineKinds == {[type |-> "chapter", number |-> 1]} \cup
             {[type |-> "article", number |-> n] : n \in 1..MaxFragments}

\* Article numbers are opaque identifiers that are only compared for
\* equality, so documents are taken up to renaming: the k-th new article
\* number of a document is k.  Repeated numbers are included.
ArticleNumbersBefore(ls, i) ==
  {ls[j].number : j \in {k \in 1..(i - 1) : ls[k].type = "article"}}

Canonical(ls) ==
  \A i \in 1..Len(ls) :
    ls[i].type = "article" =>
      \/ ls[i].number \in ArticleNumbersBefore(ls, i)
      \/ ls[i].number = Cardinality(ArticleNumbersBefore(ls, i)) + 1

\* parent of the fragment at position i: the number of the last chapter
\* matched before it (current_chapter), None when there is none
RECURSIVE current_chapter(_, _)
current_chapter(ls, i) ==
  IF i = 0 THEN NoParent
  ELSE IF ls[i].type = "chapter" THEN ls[i].number
  ELSE current_chapter(ls, i - 1)

parse(ls) ==
  [i \in 1..Len(ls) |->
     IF ls[i].type = "chapter"
     THEN DocumentFragment("chapter", ls[i].number, NoParent)
     ELSE DocumentFragment("article", ls[i].number, current_chapter(ls, i - 1))]

Documents == {ls \in SeqsUpTo(LineKinds, MaxFragments) : Canonical(ls)}

IsArticle(f) == f.type = "article"

get_articles(frs) == SelectSeq(frs, IsArticle)

\* ------------------------------------------------ CompletenessValidator
\* The checklist is a dict keyed by "article_<number>": a function from the
\* article numbers of the document to BOOLEAN.  analysis_results is a dict
\* over the same keys; NoResult stands for an absent key.
NoResult == [fragment_number |-> 0, analysis_completed |-> FALSE,
             analysis_data |-> None]

new_checklist(frs) ==
  [n \in {get_articles(frs)[i].number : i \in 1..Len(get_articles(frs))} |-> FALSE]

new_analysis_results(frs) == [n \in DOMAIN new_checklist(frs) |-> NoResult]

\* checklist.get(fragment_id, False)
checklist_get(cl, n) == IF n \in DOMAIN cl THEN cl[n] ELSE FALSE

\* a marking that creates the entry when the number has none
mark_checklist_add(cl, n) ==
  [m \in DOMAIN cl \cup {n} |-> IF m = n THEN TRUE ELSE cl[m]]

\* a marking that flips the entry instead of setting it
mark_checklist_toggle(cl, n) ==
  IF n \in DOMAIN cl THEN [cl EXCEPT ![n] = ~cl[n]] ELSE cl

mark_checklist(cl, n) ==
  IF n \in DOMAIN cl THEN [cl EXCEPT ![n] = TRUE] ELSE cl

\* data is the optional argument analysis_data; None is stored as {}
mark_results(cl, ar, n, data) ==
  IF n \in DOMAIN cl
  THEN [ar EXCEPT ![n] = [fragment_number |-> n, analysis_completed |-> TRUE,
                          analysis_data |-> data]]
  ELSE ar

get_missing_articles(arts, cl) ==
  LET Unchecked(a) == ~checklist_get(cl, a.number)
  IN  SelectSeq(arts, Unchecked)

\* any() in place of all()
is_complete_any(cl) == \E n \in DOMAIN cl : cl[n]

is_complete(cl) == \A n \in DOMAIN cl : cl[n]

\* a rate that is 0.0 for an empty checklist
get_completion_rate_zero(cl) ==
  IF DOMAIN cl = {} THEN <<0, 1>>
  ELSE <<Cardinality({n \in DOMAIN cl : cl[n]}), Cardinality(DOMAIN cl)>>

\* a rate is the pair <<numerator, denominator>>; 1.0 is <<1, 1>>
get_completion_rate(cl) ==
  IF DOMAIN cl = {} THEN <<1, 1>>
  ELSE <<Cardinality({n \in DOMAIN cl : cl[n]}), Cardinality(DOMAIN cl)>>

RateLeq(r, q) == r[1] * q[2] <= q[1] * r[2]

numbers_of(arts) == [i \in 1..Len(arts) |-> arts[i].number]

get_completion_report(arts, cl) ==
  LET missing == get_missing_articles(arts, cl)
  IN  [total_articles |-> Len(arts),
       analyzed_articles |-> Cardinality(DOMAIN cl) - Len(missing),
       missing_articles |-> Len(missing),
       completion_rate |-> get_completion_rate(cl),
       is_complete |-> is_complete(cl),
       missing_article_numbers |-> numbers_of(missing),
       recommendation |-> "absent"]

validate_and_report(arts, cl) ==
  LET report == get_completion_report(arts, cl)
  IN  [report EXCEPT !.recommendation =
         IF ~report.is_complete THEN "incomplete_analyze_missing"
         ELSE "fully_analyzed"]

\* ------------------------------------------- texts and the banner protocol
\* A text is a sequence of tokens:
\*   start n : "=== АНАЛИЗ ФРАГМЕНТА: n ===" (a well-formed start banner)
\*   end n   : "=== КОНЕЦ АНАЛИЗА ФРАГМЕНТА: n ===" (an end banner)
\*   text n  : analysis prose written for fragment n, free of banners
\*   bad n   : a malformed banner for n, which the pattern does not recognise
\*   ws      : whitespace
Tok(k, n) == [k |-> k, n |-> n]

WS == Tok("ws", 0)

\* str.strip()
RECURSIVE lstrip(_)
lstrip(t) == IF t # <<>> /\ Head(t) = WS THEN lstrip(Tail(t)) ELSE t

RECURSIVE rstrip(_)
rstrip(t) ==
  IF t # <<>> /\ t[Len(t)] = WS THEN rstrip(SubSeq(t, 1, Len(t) - 1)) ELSE t

strip(t) == rstrip(lstrip(t))

\* positions at which  ===\s*АНАЛИЗ ФРАГМЕНТА:\s*<number>\s*===  matches
StartMatches(full_response, fragment_number) ==
  {i \in 1..Len(full_response) :
     full_response[i] = Tok("start", fragment_number)}

\* positions after i at which  ===\s*КОНЕЦ АНАЛИЗА ФРАГМЕНТА  matches: the
\* pattern ends there and reads no number
EndMatches(full_response, i) ==
  {j \in (i + 1)..Len(full_response) : full_response[j].k = "end"}

\* re.search: the leftmost start banner that is followed by an end banner;
\* (.*?) stops at the first end banner after it
_extract_fragment_analysis(full_response, fragment_number) ==
  LET starts == {i \in StartMatches(full_response, fragment_number) :
                   EndMatches(full_response, i) # {}}
  IN  IF starts = {} THEN None
      ELSE LET i == SetMin(starts)
               j == SetMin(EndMatches(full_response, i))
           IN  Some(strip(SubSeq(full_response, i + 1, j - 1)))

\* Python truthiness of Optional[str]:  x or y
Or(x, y) == IF x.some /\ x.v # <<>> THEN x ELSE y

\* ------------------------------------------------------- BaseExpertAgent
\* A result dict; frag is the position of the fragment in the list given to
\* analyze_batch (the fragment object the result was built from).
Result(arts, i, ok, grp, an) ==
  [fragment_number |-> arts[i].number, frag |-> i, success |-> ok,
   group_analysis |-> grp, analysis |-> an]

\* analyze_fragment once the Analyzer call has returned resp / has raised
analyze_fragment_ok(arts, i, resp) == Result(arts, i, TRUE, FALSE, Some(resp))

analyze_fragment_error(arts, i) == Result(arts, i, FALSE, FALSE, None)

\* analyze_fragment_group once the grouped Analyzer call has returned
group_result(arts, i, full_response) ==
  Result(arts, i, TRUE, TRUE,
         Or(_extract_fragment_analysis(full_response, arts[i].number),
            Some(full_response)))

group_results(arts, batch, full_response) ==
  [k \in 1..Len(batch) |-> group_result(arts, batch[k], full_response)]

total_batches_floor(total, batch_size) == total \div batch_size

\* analyze_batch lines 143-157: contiguous chunks of positions 1..total
total_batches(total, batch_size) == (total + batch_size - 1) \div batch_size

make_batches(total, batch_size) ==
  [b \in 1..total_batches(total, batch_size) |->
     [k \in 1..(Min(b * batch_size, total) - (b - 1) * batch_size) |->
        (b - 1) * batch_size + k]]

\* ------------------------------------------------------------------ state
VARIABLES
  mode,              \* "pipeline": LegalExpertisePipeline, "web": WebExpertiseController,
                     \* "react": the same with ReAct agents,
                     \* any other: a component driven on its own
  fragments,         \* parser.fragments: the parsed document
  checklist,         \* validator.checklist
  analysis_results,  \* validator.analysis_results
  batch_size,        \* analyze_batch parameter
  max_workers,       \* analyze_batch parameter
  pc,                \* position of the main thread
  stage,             \* number of the expertise stage being run (0: none yet)
  task,              \* analyze_batch: the futures, one per batch
  results,           \* analyze_batch: the local list `results`
  mark_pos,          \* _run_expertise_stage: position of the marking loop
  calls,             \* Analyzer calls of the current stage, per article position
  stage_results,     \* execution_record['stages'] / stage_results
  response,          \* the grouped response given to analyze_fragment_group
  last_call,         \* the latest mark_analyzed call made on the validator alone
  final,             \* the value returned by the run
  parser             \* NPADocumentParser.parse: the lines and the scan registers

vars == <<mode, fragments, checklist, analysis_results, batch_size, max_workers,
          pc, stage, task, results, mark_pos, calls, stage_results, response,
          last_call, final, parser>>

articles == get_articles(fragments)

\* a future: st is queued / running / fallback / done / raised; batch the
\* positions of its fragments; pos the next fragment of the fallback loop;
\* out the list the task has built so far; collected once as_completed has
\* yielded it
Future(batch) ==
  [st |-> "queued", batch |-> batch, pos |-> 1, out |-> <<>>, collected |-> FALSE]

\* calls[i]: how many grouped and single-fragment Analyzer calls covered
\* article i in the current stage, and how many of them raised
NoCalls(n) ==
  [i \in 1..n |-> [group |-> 0, single |-> 0, group_failed |-> 0,
                   single_failed |-> 0]]

NoReturn == [kind |-> "none"]

\* the scan state of parse (lines 83-89): the lines of the document, the
\* index of the line at hand, and the three registers; NoParent stands for
\* None in a register
NoParser ==
  [lines |-> <<>>, line_num |-> 0, current_chapter |-> NoParent,
   current_article |-> NoParent, current_paragraph |-> NoParent]

NoCall == [k |-> 0, article_number |-> 0, analysis_data |-> None]

InitCommon ==
  /\ fragments \in {parse(d) : d \in Documents}
  /\ checklist = <<>>
  /\ analysis_results = <<>>
  /\ batch_size \in 1..MaxBatchSize
  /\ max_workers \in 1..MaxWorkers
  /\ pc = "init"
  /\ stage = 0
  /\ task = <<>>
  /\ results = <<>>
  /\ mark_pos = 0
  /\ calls = <<>>
  /\ stage_results = <<>>
  /\ response = <<>>
  /\ last_call = NoCall
  /\ final = NoReturn
  /\ parser = NoParser

Init == mode = "pipeline" /\ InitCommon

InitWeb == mode = "web" /\ InitCommon

\* --------------------------------------------------- run of the pipeline
\* conduct_full_expertise, step 0: the validator is built from the fragments
conduct_begin ==
  /\ pc = "init"
  /\ checklist' = new_checklist(fragments)
  /\ analysis_results' = new_analysis_results(fragments)
  /\ pc' = "stages"
  /\ UNCHANGED <<parser, mode, fragments, batch_size, max_workers, stage, task, results,
                 mark_pos, calls, stage_results, response, last_call, final>>

\* _run_expertise_stage / _execute_stage up to the call of analyze_batch, and
\* analyze_batch up to the submission of every batch (lines 143-168).  Which
\* stages are skipped is an input: after any stage the run may go on to one
\* more stage or to the final check.
start_stage ==
  /\ pc = "stages"
  /\ stage < MaxStages
  /\ stage' = stage + 1
  /\ task' = [b \in 1..total_batches(Len(articles), batch_size) |->
                Future(make_batches(Len(articles), batch_size)[b])]
  /\ results' = <<>>
  /\ calls' = NoCalls(Len(articles))
  /\ pc' = "collect"
  /\ UNCHANGED <<parser, mode, fragments, checklist, analysis_results, batch_size,
                 max_workers, mark_pos, stage_results, response, last_call, final>>

Busy == {b \in DOMAIN task : task[b].st \in {"running", "fallback", "hung"}}

\* a pool thread takes the next queued batch (FIFO work queue, at most
\* max_workers threads)
start_task(b) ==
  /\ pc = "collect"
  /\ task[b].st = "queued"
  /\ \A c \in 1..(b - 1) : task[c].st # "queued"
  /\ Cardinality(Busy) < max_workers
  /\ task' = [task EXCEPT ![b].st = "running"]
  /\ UNCHANGED <<parser, mode, fragments, checklist, analysis_results, batch_size,
                 max_workers, pc, stage, results, mark_pos, calls,
                 stage_results, response, last_call, final>>

CountSingle(cs, i, raised) ==
  [cs EXCEPT ![i].single = @ + 1,
             ![i].single_failed = IF raised THEN @ + 1 ELSE @]

CountGroup(cs, batch, raised) ==
  [i \in DOMAIN cs |->
     IF i \in Range(batch)
     THEN [cs[i] EXCEPT !.group = @ + 1,
                        !.group_failed = IF raised THEN @ + 1 ELSE @]
     ELSE cs[i]]

\* Responses of the Analyzer.  "text n" is prose about fragment n, "problem n"
\* prose about fragment n that mentions a problem.  Only the web controller
\* reads the prose of an analysis (lines 404-409), so the pipeline is run with
\* one kind of prose.
AnalysisKinds(m) == IF m \in {"web", "react"} THEN {"text", "problem"} ELSE {"text"}

SingleResponses(m, arts, i) ==
  {<<Tok(k, arts[i].number)>> : k \in AnalysisKinds(m)}

\* responses of a grouped call: every section framed, the first section
\* without its banners, prose without any banner, the empty text
RECURSIVE well_formed(_, _, _)
well_formed(arts, batch, k) ==
  IF batch = <<>> THEN <<>>
  ELSE <<Tok("start", arts[Head(batch)].number),
         Tok(k, arts[Head(batch)].number),
         Tok("end", arts[Head(batch)].number)>>
       \o well_formed(arts, Tail(batch), k)

GroupResponses(m, arts, batch) ==
  {well_formed(arts, batch, k) : k \in AnalysisKinds(m)} \cup
  {<<Tok("text", arts[Head(batch)].number)>> \o well_formed(arts, Tail(batch), "text"),
   <<Tok("text", 0)>>,
   <<>>}

\* an exception that is not raised by the Analyzer call (prompt building,
\* lines 80-81 and 237-243, is outside the try blocks) ends the task
task_raises(b) ==
  /\ pc = "collect"
  /\ task[b].st \in {"running", "fallback"}
  /\ task' = [task EXCEPT ![b].st = "raised"]
  /\ UNCHANGED <<parser, mode, fragments, checklist, analysis_results, batch_size,
                 max_workers, pc, stage, results, mark_pos, calls,
                 stage_results, response, last_call, final>>

\* analyze_fragment_group on a batch of one fragment: analyze_fragment, the
\* Analyzer call returns r
single_call_returns(b, r) ==
  /\ pc = "collect"
  /\ task[b].st = "running"
  /\ Len(task[b].batch) = 1
  /\ task' = [task EXCEPT
       ![b].st = "done",
       ![b].out = <<analyze_fragment_ok(articles, task[b].batch[1], r)>>]
  /\ calls' = CountSingle(calls, task[b].batch[1], FALSE)
  /\ UNCHANGED <<parser, mode, fragments, checklist, analysis_results, batch_size,
                 max_workers, pc, stage, results, mark_pos, stage_results,
                 response, last_call, final>>

\* ... the Analyzer call raises (lines 107-122)
single_call_raises(b) ==
  /\ pc = "collect"
  /\ task[b].st = "running"
  /\ Len(task[b].batch) = 1
  /\ task' = [task EXCEPT
       ![b].st = "done",
       ![b].out = <<analyze_fragment_error(articles, task[b].batch[1])>>]
  /\ calls' = CountSingle(calls, task[b].batch[1], TRUE)
  /\ UNCHANGED <<parser, mode, fragments, checklist, analysis_results, batch_size,
                 max_workers, pc, stage, results, mark_pos, stage_results,
                 response, last_call, final>>

\* analyze_fragment_group, the grouped call returns r (lines 273-304)
group_call_returns(b, r) ==
  /\ pc = "collect"
  /\ task[b].st = "running"
  /\ Len(task[b].batch) > 1
  /\ task' = [task EXCEPT ![b].st = "done",
                          ![b].out = group_results(articles, task[b].batch, r)]
  /\ calls' = CountGroup(calls, task[b].batch, FALSE)
  /\ UNCHANGED <<parser, mode, fragments, checklist, analysis_results, batch_size,
                 max_workers, pc, stage, results, mark_pos, stage_results,
                 response, last_call, final>>

\* analyze_fragment_group, the grouped call raises (lines 306-311)
group_call_raises(b) ==
  /\ pc = "collect"
  /\ task[b].st = "running"
  /\ Len(task[b].batch) > 1
  /\ task' = [task EXCEPT ![b].st = "fallback", ![b].pos = 1]
  /\ calls' = CountGroup(calls, task[b].batch, TRUE)
  /\ UNCHANGED <<parser, mode, fragments, checklist, analysis_results, batch_size,
                 max_workers, pc, stage, results, mark_pos, stage_results,
                 response, last_call, final>>

\* one analyze_fragment of the fallback comprehension (line 311); r is the
\* response of the Analyzer, None when the call raises
fallback_result(arts, i, r) ==
  IF r.some THEN analyze_fragment_ok(arts, i, r.v)
  ELSE analyze_fragment_error(arts, i)

\* a fallback call that raised is made again
fallback_call_retry(b, r) ==
  /\ pc = "collect"
  /\ task[b].st = "fallback"
  /\ task' = IF r.some
             THEN [task EXCEPT
                     ![b].out = Append(@, fallback_result(articles, task[b].batch[task[b].pos], r)),
                     ![b].pos = @ + 1,
                     ![b].st = IF task[b].pos = Len(task[b].batch) THEN "done" ELSE "fallback"]
             ELSE task
  /\ calls' = CountSingle(calls, task[b].batch[task[b].pos], ~r.some)
  /\ UNCHANGED <<parser, mode, fragments, checklist, analysis_results, batch_size,
                 max_workers, pc, stage, results, mark_pos, stage_results,
                 response, last_call, final>>

fallback_call(b, r) ==
  /\ pc = "collect"
  /\ task[b].st = "fallback"
  /\ task' = [task EXCEPT
       ![b].out = Append(@, fallback_result(articles, task[b].batch[task[b].pos], r)),
       ![b].pos = @ + 1,
       ![b].st = IF task[b].pos = Len(task[b].batch) THEN "done" ELSE "fallback"]
  /\ calls' = CountSingle(calls, task[b].batch[task[b].pos], ~r.some)
  /\ UNCHANGED <<parser, mode, fragments, checklist, analysis_results, batch_size,
                 max_workers, pc, stage, results, mark_pos, stage_results,
                 response, last_call, final>>

\* as_completed yields a finished future (lines 171-177)
\* results = batch_results in place of results.extend(batch_results)
collected_results_overwrite(res, fut) ==
  IF fut.st = "done" THEN fut.out ELSE res

collected_results(res, fut) ==
  IF fut.st = "done" THEN res \o fut.out ELSE res

collect(b) ==
  /\ pc = "collect"
  /\ task[b].st \in {"done", "raised"}
  /\ ~task[b].collected
  /\ results' = collected_results(results, task[b])
  /\ task' = [task EXCEPT ![b].collected = TRUE]
  /\ UNCHANGED <<parser, mode, fragments, checklist, analysis_results, batch_size,
                 max_workers, pc, stage, mark_pos, calls, stage_results,
                 response, last_call, final>>

\* analyze_batch returns (line 186)
\* analyze_batch returning without waiting for the pool to shut down
analyze_batch_returns_early ==
  /\ pc = "collect"
  /\ pc' = "mark"
  /\ mark_pos' = 1
  /\ UNCHANGED <<parser, mode, fragments, checklist, analysis_results, batch_size,
                 max_workers, stage, task, results, calls, stage_results,
                 response, last_call, final>>

analyze_batch_returns ==
  /\ pc = "collect"
  /\ \A b \in DOMAIN task : task[b].collected
  /\ pc' = "mark"
  /\ mark_pos' = 1
  /\ UNCHANGED <<parser, mode, fragments, checklist, analysis_results, batch_size,
                 max_workers, stage, task, results, calls, stage_results,
                 response, last_call, final>>

marks_single_only(r) == r.success /\ ~r.group_analysis

\* one turn of the marking loop (pipeline lines 257-262, web lines 390-398)
marks(r) == r.success

mark_step ==
  /\ pc = "mark"
  /\ mark_pos <= Len(results)
  /\ LET r == results[mark_pos]
     IN  IF marks(r)
         THEN /\ checklist' = mark_checklist(checklist, r.fragment_number)
              /\ analysis_results' = mark_results(checklist, analysis_results,
                                                  r.fragment_number, Some(r))
         ELSE UNCHANGED <<checklist, analysis_results>>
  /\ mark_pos' = mark_pos + 1
  /\ UNCHANGED <<parser, mode, fragments, batch_size, max_workers, pc, stage, task,
                 results, calls, stage_results, response, last_call, final>>

Successful(res) == {k \in 1..Len(res) : res[k].success}

Failed(res) == {k \in 1..Len(res) : ~res[k].success}

\* 'проблем' in analysis_text.lower() or 'issue' in analysis_text.lower()
mentions_problem(r) ==
  r.analysis.some /\ \E k \in 1..Len(r.analysis.v) : r.analysis.v[k].k = "problem"

issues_count(res) ==
  Cardinality({k \in Successful(res) : mentions_problem(res[k])})

\* the stage result: pipeline lines 264-278; web lines 400-445
stage_result(m, res) ==
  IF m \in {"web", "react"}
  THEN [status |-> IF Failed(res) # {} THEN "warning"
                   ELSE IF issues_count(res) > 0 THEN "warning"
                   ELSE "success",
        issues_found |-> issues_count(res)]
  ELSE [success |-> TRUE]

\* the stage returns; its result list stays in the stage result ('results',
\* 'all_results') and is replaced when the next stage calls analyze_batch
end_stage ==
  /\ pc = "mark"
  /\ mark_pos > Len(results)
  /\ stage_results' = Append(stage_results, stage_result(mode, results))
  /\ pc' = "stages"
  /\ mark_pos' = 0
  /\ UNCHANGED <<parser, mode, fragments, checklist, analysis_results, batch_size,
                 max_workers, stage, task, results, calls, response, last_call,
                 final>>

\* final completeness check and report (pipeline lines 182-217)
final_report(arts, cl, srs) ==
  [kind |-> "report", success |-> TRUE, stages_completed |-> Len(srs),
   completeness |-> validate_and_report(arts, cl)]

conduct_end ==
  /\ pc = "stages"
  /\ final' = final_report(articles, checklist, stage_results)
  /\ pc' = "done"
  /\ UNCHANGED <<parser, mode, fragments, checklist, analysis_results, batch_size,
                 max_workers, stage, task, results, mark_pos, calls,
                 stage_results, response, last_call>>

Scheduler ==
  \/ \E b \in DOMAIN task : start_task(b)
  \/ \E b \in DOMAIN task : task_raises(b)
  \/ \E b \in DOMAIN task :
       \E r \in SingleResponses(mode, articles, task[b].batch[1]) :
         single_call_returns(b, r)
  \/ \E b \in DOMAIN task : single_call_raises(b)
  \/ \E b \in DOMAIN task :
       \E r \in GroupResponses(mode, articles, task[b].batch) :
         group_call_returns(b, r)
  \/ \E b \in DOMAIN task : group_call_raises(b)
  \/ \E b \in DOMAIN task :
       \E r \in {None} \cup
                {Some(x) : x \in SingleResponses(mode, articles,
                                                 task[b].batch[Min(task[b].pos, Len(task[b].batch))])} :
         fallback_call(b, r)
  \/ \E b \in DOMAIN task : collect(b)
  \/ analyze_batch_returns

Next ==
  \/ conduct_begin
  \/ start_stage
  \/ Scheduler
  \/ mark_step
  \/ end_stage
  \/ conduct_end

Spec == Init /\ [][Next]_vars

\* ------------------------------------------------- WebExpertiseController
\* run_expertise_pipeline, step 1: parse_document (lines 95-129, 156-163)
parse_document ==
  /\ pc = "init"
  /\ IF fragments = <<>>
     THEN /\ final' = [kind |-> "error", stage |-> "parsing"]
          /\ pc' = "done"
          /\ UNCHANGED <<checklist, analysis_results>>
     ELSE /\ checklist' = new_checklist(fragments)
          /\ analysis_results' = new_analysis_results(fragments)
          /\ pc' = "stages"
          /\ UNCHANGED final
  /\ UNCHANGED <<parser, mode, fragments, batch_size, max_workers, stage, task, results,
                 mark_pos, calls, stage_results, response, last_call>>

\* _execute_stage when the document has articles (lines 297-387)
execute_stage == articles # <<>> /\ start_stage

\* _execute_stage when it has none (lines 299-310)
execute_stage_no_articles ==
  /\ pc = "stages"
  /\ stage < MaxStages
  /\ articles = <<>>
  /\ stage' = stage + 1
  /\ stage_results' = Append(stage_results,
                             [status |-> "warning", issues_found |-> 0])
  /\ UNCHANGED <<parser, mode, fragments, checklist, analysis_results, batch_size,
                 max_workers, pc, task, results, mark_pos, calls, response,
                 last_call, final>>

RECURSIVE total_issues(_)
total_issues(srs) ==
  IF srs = <<>> THEN 0 ELSE Head(srs).issues_found + total_issues(Tail(srs))

all_successful(srs) == \A k \in 1..Len(srs) : srs[k].status = "success"

quality_score(srs, report) ==
  LET penalty == IF total_issues(srs) > 0 THEN Min(total_issues(srs) * 5, 30) ELSE 0
      base == 100 - penalty - (IF ~report.is_complete THEN 20 ELSE 0)
  IN  IF base > 0 THEN base ELSE 0

verdict_status(score, ok) ==
  IF score >= 90 /\ ok THEN "success"
  ELSE IF score >= 70 THEN "warning"
  ELSE "error"

\* the result of run_expertise_pipeline (lines 218-265)
web_report(arts, cl, srs) ==
  LET report == get_completion_report(arts, cl)
      score == quality_score(srs, report)
  IN  [kind |-> "report", success |-> TRUE, stages_completed |-> Len(srs),
       completeness |-> report,
       overall |-> [quality_score |-> score,
                    total_issues |-> total_issues(srs),
                    verdict_status |-> verdict_status(score, all_successful(srs)),
                    ready_for_approval |-> score >= 80 /\ all_successful(srs)]]

\* no stage selected (lines 178-183), or the end of the run (lines 218-265)
run_end ==
  /\ pc = "stages"
  /\ final' = IF stage = 0 THEN [kind |-> "error", stage |-> "configuration"]
              ELSE web_report(articles, checklist, stage_results)
  /\ pc' = "done"
  /\ UNCHANGED <<parser, mode, fragments, checklist, analysis_results, batch_size,
                 max_workers, stage, task, results, mark_pos, calls,
                 stage_results, response, last_call>>

NextWeb ==
  \/ parse_document
  \/ execute_stage
  \/ execute_stage_no_articles
  \/ Scheduler
  \/ mark_step
  \/ end_stage
  \/ run_end

SpecWeb == InitWeb /\ [][NextWeb]_vars

\* -------------------------------------------- the validator on its own
\* any sequence of mark_analyzed calls on a freshly built validator
LedgerData ==
  {None} \cup
  {Some([fragment_number |-> 0, frag |-> 0, success |-> TRUE,
         group_analysis |-> FALSE, analysis |-> Some(<<Tok("text", k)>>)]) :
     k \in 1..2}

InitLedger ==
  /\ mode = "ledger"
  /\ fragments \in {parse(d) : d \in Documents}
  /\ checklist = new_checklist(fragments)
  /\ analysis_results = new_analysis_results(fragments)
  /\ batch_size = 1
  /\ max_workers = 1
  /\ pc = "ledger"
  /\ stage = 0
  /\ task = <<>>
  /\ results = <<>>
  /\ mark_pos = 0
  /\ calls = <<>>
  /\ stage_results = <<>>
  /\ response = <<>>
  /\ last_call = NoCall
  /\ final = NoReturn
  /\ parser = NoParser

mark_analyzed(article_number, analysis_data) ==
  /\ pc = "ledger"
  /\ last_call.k < MaxCalls
  /\ checklist' = mark_checklist(checklist, article_number)
  /\ analysis_results' = mark_results(checklist, analysis_results,
                                      article_number, analysis_data)
  /\ last_call' = [k |-> last_call.k + 1, article_number |-> article_number,
                   analysis_data |-> analysis_data]
  /\ UNCHANGED <<parser, mode, fragments, batch_size, max_workers, pc, stage, task,
                 results, mark_pos, calls, stage_results, response, final>>

NextLedger ==
  \E n \in 1..(MaxFragments + 1), data \in LedgerData : mark_analyzed(n, data)

SpecLedger == InitLedger /\ [][NextLedger]_vars

\* ------------------------------------- analyze_fragment_group on its own
Tokens ==
  {Tok(k, n) : k \in {"start", "end", "text", "bad"}, n \in 1..MaxFragments}
  \cup {WS}

\* the section of a response written for fragment n, in the shapes an
\* Analyzer produces: framed, unframed, malformed start banner, no end
\* banner, end banner with the number m, empty body, padded body, malformed
\* end banner, nothing
Sections(n, m) ==
  {<<Tok("start", n), Tok("text", n), Tok("end", n)>>,
   <<Tok("text", n)>>,
   <<Tok("bad", n), Tok("text", n), Tok("end", n)>>,
   <<Tok("start", n), Tok("text", n)>>,
   <<Tok("start", n), Tok("text", n), Tok("end", m)>>,
   <<Tok("start", n), Tok("end", n)>>,
   <<Tok("start", n), WS, Tok("text", n), WS, Tok("end", n)>>,
   <<Tok("start", n), Tok("text", n), Tok("bad", n)>>,
   <<>>}

RECURSIVE SectionResponses(_)
SectionResponses(ns) ==
  IF ns = <<>> THEN {<<>>}
  ELSE {x \o y : x \in Sections(Head(ns), (Head(ns) % MaxFragments) + 1),
                 y \in SectionResponses(Tail(ns))}

Responses(arts) ==
  SeqsUpTo(Tokens, MaxRespLen) \cup SectionResponses(numbers_of(arts))

InitGroup ==
  /\ mode = "group"
  /\ fragments \in {parse(d) : d \in {x \in Documents : Len(get_articles(parse(x))) > 1}}
  /\ response \in Responses(articles)
  /\ checklist = new_checklist(fragments)
  /\ analysis_results = new_analysis_results(fragments)
  /\ batch_size = 1
  /\ max_workers = 1
  /\ pc = "group"
  /\ stage = 0
  /\ task = <<>>
  /\ results = <<>>
  /\ mark_pos = 0
  /\ calls = <<>>
  /\ stage_results = <<>>
  /\ last_call = NoCall
  /\ final = NoReturn
  /\ parser = NoParser

\* analyze_fragment_group(articles, checklist) when the grouped call returns
\* `response` (lines 273-304)
analyze_fragment_group ==
  /\ pc = "group"
  /\ results' = group_results(articles, [k \in 1..Len(articles) |-> k], response)
  /\ pc' = "grouped"
  /\ UNCHANGED <<parser, mode, fragments, checklist, analysis_results, batch_size,
                 max_workers, stage, task, mark_pos, calls, stage_results,
                 response, last_call, final>>

NextGroup == analyze_fragment_group

SpecGroup == InitGroup /\ [][NextGroup]_vars

\* ------------------------------------------- NPADocumentParser on its own
\* A line of the document after strip(): blank, or the first pattern that
\* matches it in the order chapter, article, paragraph (PATTERNS, re.match at
\* the start of the line), or text that matches none.  n is the number the
\* pattern captures; for a text line it tells one line from another.
Line(k, n) == [k |-> k, n |-> n]

ChapterNumbers == {1, 2}

ParagraphNumbers == {1}

TextLines == {1, 2}

ParserLines ==
  {Line("blank", 0)}
  \cup {Line("chapter", n) : n \in ChapterNumbers}
  \cup {Line("article", n) : n \in 1..MaxFragments}
  \cup {Line("paragraph", n) : n \in ParagraphNumbers}
  \cup {Line("text", n) : n \in TextLines}

ParserDocuments == SeqsUpTo(ParserLines, MaxLines)

\* _match_pattern(line_stripped, element_type)
_match_pattern(line, element_type) == line.k = element_type

\* ' '.join(lines): the lines with a single space between them
SP == Line("sp", 0)

RECURSIVE join(_)
join(ls) ==
  IF Len(ls) <= 1 THEN ls ELSE <<Head(ls), SP>> \o join(Tail(ls))

\* the loop of _collect_article_text from line i on: it stops at a blank
\* line and at a line that matches any pattern
RECURSIVE collect_lines(_, _)
collect_lines(lines, i) ==
  IF i > Len(lines) THEN <<>>
  ELSE IF lines[i].k = "blank" THEN <<>>
  ELSE IF \/ _match_pattern(lines[i], "article")
          \/ _match_pattern(lines[i], "paragraph")
          \/ _match_pattern(lines[i], "chapter") THEN <<>>
  ELSE <<lines[i]>> \o collect_lines(lines, i + 1)

_collect_article_text(lines, start_line) ==
  join(<<lines[start_line]>> \o collect_lines(lines, start_line + 1))

\* the fragments parse appends; char_start is the position of the line,
\* counted in lines; the number of a paragraph is "<article>.<paragraph>"
chapter_fragment(ps) ==
  [type |-> "chapter", number |-> ps.lines[ps.line_num].n,
   parent_number |-> NoParent, text |-> <<ps.lines[ps.line_num]>>,
   char_start |-> ps.line_num]

\* an article fragment that never records its chapter
article_fragment_orphan(ps) ==
  [type |-> "article", number |-> ps.lines[ps.line_num].n,
   parent_number |-> NoParent,
   text |-> _collect_article_text(ps.lines, ps.line_num),
   char_start |-> ps.line_num]

article_fragment(ps) ==
  [type |-> "article", number |-> ps.lines[ps.line_num].n,
   parent_number |-> ps.current_chapter,
   text |-> _collect_article_text(ps.lines, ps.line_num),
   char_start |-> ps.line_num]

paragraph_fragment(ps) ==
  [type |-> "paragraph",
   number |-> <<ps.current_article, ps.lines[ps.line_num].n>>,
   parent_number |-> ps.current_article,
   text |-> <<ps.lines[ps.line_num]>>,
   char_start |-> ps.line_num]

InitParser ==
  /\ mode = "parser"
  /\ \E d \in ParserDocuments : parser = [NoParser EXCEPT !.lines = d, !.line_num = 1]
  /\ fragments = <<>>
  /\ checklist = <<>>
  /\ analysis_results = <<>>
  /\ batch_size = 1
  /\ max_workers = 1
  /\ pc = "parse"
  /\ stage = 0
  /\ task = <<>>
  /\ results = <<>>
  /\ mark_pos = 0
  /\ calls = <<>>
  /\ stage_results = <<>>
  /\ response = <<>>
  /\ last_call = NoCall
  /\ final = NoReturn

AtLine == pc = "parse" /\ parser.line_num <= Len(parser.lines)

ParserFrame ==
  UNCHANGED <<mode, checklist, analysis_results, batch_size, max_workers, pc,
              stage, task, results, mark_pos, calls, stage_results, response,
              last_call, final>>

\* a blank line (lines 94-96)
skip_blank ==
  /\ AtLine
  /\ parser.lines[parser.line_num].k = "blank"
  /\ parser' = [parser EXCEPT !.line_num = @ + 1]
  /\ UNCHANGED fragments
  /\ ParserFrame

\* a chapter line (lines 98-116)
match_chapter ==
  /\ AtLine
  /\ _match_pattern(parser.lines[parser.line_num], "chapter")
  /\ fragments' = Append(fragments, chapter_fragment(parser))
  /\ parser' = [parser EXCEPT !.current_chapter = parser.lines[parser.line_num].n,
                              !.line_num = @ + 1]
  /\ ParserFrame

\* an article line (lines 118-142)
match_article ==
  /\ AtLine
  /\ _match_pattern(parser.lines[parser.line_num], "article")
  /\ fragments' = Append(fragments, article_fragment(parser))
  /\ parser' = [parser EXCEPT !.current_article = parser.lines[parser.line_num].n,
                              !.current_paragraph = NoParent,
                              !.line_num = @ + 1]
  /\ ParserFrame

\* a paragraph line while current_article is set (lines 144-166)
match_paragraph ==
  /\ AtLine
  /\ _match_pattern(parser.lines[parser.line_num], "paragraph")
  /\ parser.current_article # NoParent
  /\ fragments' = Append(fragments, paragraph_fragment(parser))
  /\ parser' = [parser EXCEPT !.current_paragraph = parser.lines[parser.line_num].n,
                              !.line_num = @ + 1]
  /\ ParserFrame

\* any other line: text, or a paragraph line while no article is set (line 166)
skip_line ==
  /\ AtLine
  /\ \/ parser.lines[parser.line_num].k = "text"
     \/ /\ _match_pattern(parser.lines[parser.line_num], "paragraph")
        /\ parser.current_article = NoParent
  /\ parser' = [parser EXCEPT !.line_num = @ + 1]
  /\ UNCHANGED fragments
  /\ ParserFrame

\* return self.fragments (line 171)
parse_returns ==
  /\ pc = "parse"
  /\ parser.line_num > Len(parser.lines)
  /\ pc' = "parsed"
  /\ UNCHANGED <<parser, mode, fragments, checklist, analysis_results,
                 batch_size, max_workers, stage, task, results, mark_pos,
                 calls, stage_results, response, last_call, final>>

NextParser ==
  \/ skip_blank
  \/ match_chapter
  \/ match_article
  \/ match_paragraph
  \/ skip_line
  \/ parse_returns

SpecParser == InitParser /\ [][NextParser]_vars

\* =================================================================== claims
\* the future of the batch that holds article position i
TaskOf(i) == CHOOSE b \in DOMAIN task : i \in Range(task[b].batch)

Positions == 1..Len(articles)

\* analyze_batch has returned
Returned == pc = "mark"

\* the marking loop of the stage has ended
Marked == pc = "mark" /\ mark_pos > Len(results)

\* no task of the stage ended by an exception
NoTaskRaised == \A b \in DOMAIN task : task[b].st # "raised"

SuccessResultFor(i) == \E k \in 1..Len(results) : results[k].frag = i /\ results[k].success

ResultsFor(i) == {k \in 1..Len(results) : results[k].frag = i}

InMissing(i) ==
  \E k \in 1..Len(get_missing_articles(articles, checklist)) :
    get_missing_articles(articles, checklist)[k] = articles[i]
    /\ ~checklist_get(checklist, articles[i].number)

\* C1: in every executed stage each article is part of at least one Analyzer
\* call (grouped or single) of the batch task that holds it, unless that task
\* ended by an exception that is not the Analyzer's; and in the final
\* completeness report every article is counted as analyzed or listed as
\* missing, never neither and never both: the analyzed count plus the number
\* of missing articles is the number of articles, and an article is listed as
\* missing exactly when its checklist entry is false.
C1_EveryArticleCalledAndAccounted ==
  /\ Returned =>
       \A i \in Positions :
         task[TaskOf(i)].st # "raised" => calls[i].group + calls[i].single >= 1
  /\ (pc = "done" /\ final.kind = "report") =>
       /\ final.completeness.analyzed_articles + final.completeness.missing_articles
            = final.completeness.total_articles
       /\ final.completeness.total_articles = Len(articles)
       /\ \A i \in Positions :
            checklist_get(checklist, articles[i].number) = ~InMissing(i)

\* C2: when every grouped Analyzer call of the stage raised and every
\* single-fragment call returned, analyze_batch returns a success result for
\* each of the N fragments, and once the stage has marked its results the
\* analyzed count of the ledger is N and nothing is missing.
AllGroupedFailAllSingleSucceed ==
  /\ NoTaskRaised
  /\ \A i \in Positions :
       calls[i].group_failed = calls[i].group /\ calls[i].single_failed = 0

C2_NoLossUnderBatchFailure ==
  /\ (Returned /\ AllGroupedFailAllSingleSucceed) =>
       /\ \A i \in Positions : SuccessResultFor(i)
       /\ \A k \in 1..Len(results) : results[k].success /\ ~results[k].group_analysis
  /\ (Marked /\ AllGroupedFailAllSingleSucceed) =>
       /\ get_completion_report(articles, checklist).analyzed_articles = Len(articles)
       /\ get_missing_articles(articles, checklist) = <<>>

\* C3: when analyze_batch returns and no task ended by an exception that is
\* not the Analyzer's, the returned list holds exactly one result for every
\* input fragment (carrying that fragment's number) and nothing else, in any
\* order.
C3_OneResultPerFragment ==
  (Returned /\ NoTaskRaised) =>
    /\ Len(results) = Len(articles)
    /\ \A i \in Positions : Cardinality(ResultsFor(i)) = 1
    /\ \A k \in 1..Len(results) :
         /\ results[k].frag \in Positions
         /\ results[k].fragment_number = articles[results[k].frag].number

\* the results came back in another order than the fragments went in, from
\* two tasks that ran at the same time, one of them with a failed call
C3_Witness ==
  /\ Returned /\ NoTaskRaised
  /\ max_workers > 1
  /\ Len(results) = 2
  /\ results[1].frag = 2
  /\ ~results[2].success

\* C4: after a first stage run with more than one worker and marked, the
\* ledger is consistent: analyzed + missing = total, every article with a
\* success result is marked, every article without one is listed as missing.
C4_LedgerConsistentAfterParallelStage ==
  (Marked /\ stage = 1 /\ max_workers > 1) =>
    /\ get_completion_report(articles, checklist).analyzed_articles
         + get_completion_report(articles, checklist).missing_articles
         = get_completion_report(articles, checklist).total_articles
    /\ \A i \in Positions :
         /\ SuccessResultFor(i) => checklist_get(checklist, articles[i].number)
         /\ ~SuccessResultFor(i) => InMissing(i)

\* C5: across any mark_analyzed call (repeated numbers and numbers without a
\* checklist entry included) an entry that is true stays true, the completion
\* rate does not decrease, and the missing list after the call is a sub-list
\* of the missing list before it.
C5_MarkAnalyzedIsMonotone ==
  [][ /\ DOMAIN checklist' = DOMAIN checklist
      /\ \A n \in DOMAIN checklist : checklist[n] => checklist'[n]
      /\ RateLeq(get_completion_rate(checklist), get_completion_rate(checklist'))
      /\ IsSubList(get_missing_articles(articles, checklist'),
                   get_missing_articles(articles, checklist)) ]_vars

\* three calls have been made, the last on a known number, and one entry is
\* still unmarked: some of the calls repeated a number or named an unknown one
C5_Witness ==
  /\ pc = "ledger"
  /\ last_call.k >= 3
  /\ last_call.article_number \in DOMAIN checklist
  /\ Len(get_missing_articles(articles, checklist)) = 1
  /\ analysis_results[last_call.article_number].analysis_data = last_call.analysis_data
  /\ \E n \in DOMAIN checklist : ~checklist[n]

\* C6: in every state of a constructed ledger the report's is_complete is true exactly when
\* get_missing_articles() is empty, which is exactly when
\* missing_article_numbers is empty.
C6_CompleteIffNothingMissing ==
  pc # "init" =>
    /\ get_completion_report(articles, checklist).is_complete
         <=> (get_missing_articles(articles, checklist) = <<>>)
    /\ get_completion_report(articles, checklist).is_complete
         <=> (get_completion_report(articles, checklist).missing_article_numbers = <<>>)

\* a ledger of two numbers of which one is marked: not complete, one missing
C6_Witness ==
  /\ pc = "ledger"
  /\ Cardinality(DOMAIN checklist) = 2
  /\ last_call.k >= 1
  /\ \E n \in DOMAIN checklist : checklist[n]
  /\ ~get_completion_report(articles, checklist).is_complete
  /\ Len(get_missing_articles(articles, checklist)) = 1

\* C7: a run ends by returning a report that states is_complete, the missing
\* article numbers and a recommendation; the recommendation is the
\* "incomplete, analyze the missing articles" warning when the missing list
\* is not empty and the "fully analyzed" text when it is empty.
C7_RunReturnsReportWithRecommendation ==
  pc = "done" =>
    /\ final.kind = "report"
    /\ final.completeness.is_complete = is_complete(checklist)
    /\ final.completeness.missing_article_numbers
         = numbers_of(get_missing_articles(articles, checklist))
    /\ final.completeness.recommendation
         = IF get_missing_articles(articles, checklist) # <<>>
           THEN "incomplete_analyze_missing"
           ELSE "fully_analyzed"

\* C8: when a task of the first stage ended by an exception, every other task
\* still ran to its end and its results were returned, and the fragments of
\* the failed task have no result, are unmarked after the marking loop and
\* are listed by get_missing_articles.
C8_WorkerExceptionIsContained ==
  (Marked /\ stage = 1) =>
    \A b \in DOMAIN task :
      task[b].st = "raised" =>
        /\ \A c \in DOMAIN task \ {b} :
             /\ task[c].st \in {"done", "raised"}
             /\ task[c].st = "done" =>
                  \A k \in 1..Len(task[c].out) :
                    \E j \in 1..Len(results) : results[j] = task[c].out[k]
        /\ \A k \in 1..Len(task[b].batch) :
             /\ ResultsFor(task[b].batch[k]) = {}
             /\ ~checklist_get(checklist, articles[task[b].batch[k]].number)
             /\ InMissing(task[b].batch[k])

\* C9: when the grouped call of a batch returns, every fragment of the batch
\* has a result with success and group_analysis set; its analysis is the
\* text extracted for it when the extraction yields a text, otherwise the
\* whole combined response; and the analysis is never empty.
C9_GroupedResultNeverEmpty ==
  pc = "grouped" =>
    /\ Len(results) = Len(articles)
    /\ \A k \in 1..Len(results) :
         LET e == _extract_fragment_analysis(response, articles[k].number)
         IN  /\ results[k].frag = k
             /\ results[k].success
             /\ results[k].group_analysis
             /\ results[k].analysis.some
             /\ results[k].analysis.v
                  = IF e.some /\ e.v # <<>> THEN e.v ELSE response
             /\ results[k].analysis.v # <<>>

\* positions i < j of a start banner and an end banner that both carry n
BannerPairs(n) ==
  {p \in (1..Len(response)) \X (1..Len(response)) :
     /\ p[1] < p[2]
     /\ response[p[1]] = Tok("start", n)
     /\ response[p[2]] = Tok("end", n)}

\* the section of fragment n is well formed: one start banner for n, the
\* next banner after it is the end banner of n, and there is analysis text
\* between the two
WellFormed(n) ==
  /\ Cardinality(StartMatches(response, n)) = 1
  /\ \E p \in BannerPairs(n) :
       /\ \A q \in (p[1] + 1)..(p[2] - 1) : response[q].k \in {"text", "ws"}
       /\ \E q \in (p[1] + 1)..(p[2] - 1) : response[q].k = "text"

\* C10: the analysis stored for fragment n is the whole combined response
\* unless the response holds a start banner and a later end banner that both
\* carry n, and then it is the text between such a pair (or, that text being
\* empty, the whole response); the result of a well-formed fragment holds no
\* banner.
C10_ExtractionFidelity ==
  pc = "grouped" =>
    \A k \in 1..Len(results) :
      LET n == articles[k].number
          a == results[k].analysis.v
      IN  /\ BannerPairs(n) = {} => a = response
          /\ a # response =>
               \E p \in BannerPairs(n) :
                 a = strip(SubSeq(response, p[1] + 1, p[2] - 1))
          /\ WellFormed(n) =>
               \A q \in 1..Len(a) : a[q].k \in {"text", "ws"}

\* no Analyzer call that covered article i in the stage has returned
NoCallSucceeded(i) ==
  /\ calls[i].group_failed = calls[i].group
  /\ calls[i].single_failed = calls[i].single

\* C11: a single-fragment Analyzer call that raises yields a result with
\* success = false and no analysis; after the marking loop of the first
\* stage every marked number is the number of a success result; and an
\* article that no Analyzer call of the stage succeeded for is unmarked and
\* listed by get_missing_articles.
C11_FailedCallLeavesArticleMissing ==
  /\ Returned =>
       \A k \in 1..Len(results) :
         (calls[results[k].frag].single_failed = calls[results[k].frag].single
          /\ ~results[k].group_analysis)
           => (~results[k].success /\ ~results[k].analysis.some)
  /\ (Marked /\ stage = 1) =>
       /\ \A n \in DOMAIN checklist :
            checklist[n] =>
              \E k \in 1..Len(results) :
                results[k].success /\ results[k].fragment_number = n
       /\ \A i \in Positions :
            NoCallSucceeded(i) =>
              (~checklist_get(checklist, articles[i].number) /\ InMissing(i))

\* C12: the ledger is mutated only by the marking loop, when no task of the
\* stage is queued or running any more and the task of the marked fragment
\* has finished; the value returned by the run is computed between stages
\* only, so after every mark_analyzed call of every stage.
C12_MarkingAfterBatchesReportAfterMarking ==
  [][ /\ (pc # "init" /\ <<checklist, analysis_results>>' # <<checklist, analysis_results>>)
         => /\ pc = "mark" /\ pc' = "mark"
            /\ \A b \in DOMAIN task : task[b].st \in {"done", "raised"}
            /\ task[TaskOf(results[mark_pos].frag)].st = "done"
            /\ mark_pos' = mark_pos + 1
      /\ final' # final
         => /\ pc = "stages" /\ pc' = "done"
            /\ \A b \in DOMAIN task : task[b].st \in {"done", "raised"}
            /\ mark_pos = 0
            /\ UNCHANGED <<checklist, analysis_results>> ]_vars

\* a run of two stages over two batches and two workers has marked both
\* articles and returned its report
C12_Witness ==
  /\ pc = "done" /\ final.kind = "report"
  /\ Len(stage_results) = 2
  /\ max_workers > 1 /\ batch_size = 1
  /\ Cardinality(DOMAIN checklist) = 2
  /\ \A n \in DOMAIN checklist : checklist[n]

\* C13: a mark_analyzed call whose article number has no checklist entry
\* leaves the ledger as it was: the checklist, the attached results, the
\* missing list and the completion rate are unchanged.
C13_UnknownNumberIsNoOp ==
  [][ (last_call' # last_call /\ last_call'.article_number \notin DOMAIN checklist)
        => /\ checklist' = checklist
           /\ analysis_results' = analysis_results
           /\ get_missing_articles(articles, checklist')
                = get_missing_articles(articles, checklist)
           /\ get_completion_rate(checklist') = get_completion_rate(checklist)
           /\ get_completion_report(articles, checklist')
                = get_completion_report(articles, checklist) ]_vars

\* the latest call named a number without an entry, on a ledger that has one
\* entry marked with a result and one still missing
C13_Witness ==
  /\ pc = "ledger"
  /\ last_call.k >= 2
  /\ last_call.article_number \notin DOMAIN checklist
  /\ last_call.analysis_data.some
  /\ \E n \in DOMAIN checklist :
       checklist[n] /\ analysis_results[n].analysis_data # last_call.analysis_data
  /\ \E n \in DOMAIN checklist : ~checklist[n]

\* C14: for a ledger built from fragments among which there is no article,
\* the completion rate is 1.0, is_complete is true and the missing list is
\* empty, at construction and after any mark_analyzed calls.
C14_VacuousCompleteness ==
  (pc = "ledger" /\ articles = <<>>) =>
    /\ get_completion_rate(checklist) = <<1, 1>>
    /\ is_complete(checklist)
    /\ get_missing_articles(articles, checklist) = <<>>
    /\ get_completion_report(articles, checklist).completion_rate = <<1, 1>>
    /\ get_completion_report(articles, checklist).is_complete
    /\ get_completion_report(articles, checklist).missing_article_numbers = <<>>
    /\ validate_and_report(articles, checklist).recommendation = "fully_analyzed"

\* a document of chapter lines only, after two mark_analyzed calls
C14_Witness ==
  /\ pc = "ledger"
  /\ fragments # <<>>
  /\ articles = <<>>
  /\ last_call.k >= 2

\* C15: a run over a document in which parse recognises nothing (an empty
\* fragment list) does not end with an error: it returns a completeness
\* report over the empty checklist, which is reported as complete.
C15_EmptyDocumentEndsWithReport ==
  (pc = "done" /\ fragments = <<>>) =>
    /\ final.kind = "report"
    /\ final.completeness.total_articles = 0
    /\ final.completeness.is_complete
    /\ final.completeness.missing_article_numbers = <<>>

\* the lines of a text without the spaces that join them
Words(text) == LET NotSpace(t) == t # SP IN SelectSeq(text, NotSpace)

IsArticleLine(l) == l.k = "article"

\* the position of the k-th article line of a document
NthArticleLine(lines, k) ==
  CHOOSE q \in 1..Len(lines) :
    /\ lines[q].k = "article"
    /\ Cardinality({j \in 1..q : lines[j].k = "article"}) = k

\* the body lines of the block that starts at line i - 1: the text lines up
\* to the next marker line or the end of the document
RECURSIVE BodyFrom(_, _)
BodyFrom(lines, i) ==
  IF i > Len(lines) THEN <<>>
  ELSE IF lines[i].k \in {"chapter", "article", "paragraph"} THEN <<>>
  ELSE IF lines[i].k = "blank" THEN BodyFrom(lines, i + 1)
  ELSE <<lines[i]>> \o BodyFrom(lines, i + 1)

\* a document made of chapter blocks (one chapter line) and article blocks
\* (an article line and a body of one or several text lines), with blank
\* lines between blocks or between the lines of a body
WellFormedDocument(lines) ==
  /\ lines # <<>>
  /\ lines[1].k \in {"chapter", "article"}
  /\ \A i \in 1..Len(lines) :
       /\ lines[i].k # "paragraph"
       /\ lines[i].k = "article" =>
            (i < Len(lines) /\ lines[i + 1].k = "text")
       /\ lines[i].k = "chapter" =>
            (i < Len(lines) => lines[i + 1].k # "text")
       /\ (lines[i].k = "blank" /\ i < Len(lines)) => lines[i + 1].k # "blank"
  /\ lines[Len(lines)].k # "blank"
  /\ \A i \in 1..Len(lines) :
       lines[i].k = "text" =>
         \E h \in 1..(i - 1) :
           /\ lines[h].k = "article"
           /\ \A j \in (h + 1)..(i - 1) : lines[j].k \in {"text", "blank"}

\* C16: for a document built from well-formed chapter and article blocks,
\* parse returns article fragments whose numbers, in order, are the numbers
\* of the article lines, and whose text holds the lines of the article's
\* block: its header line and every line of its body (compared line by line,
\* whatever joins the lines).
C16_ParserRoundTrip ==
  (pc = "parsed" /\ WellFormedDocument(parser.lines)) =>
    LET arts == SelectSeq(fragments, IsArticle)
        heads == SelectSeq(parser.lines, IsArticleLine)
    IN  /\ Len(arts) = Len(heads)
        /\ \A k \in 1..Len(arts) :
             /\ arts[k].number = heads[k].n
             /\ Words(arts[k].text)
                  = <<heads[k]>> \o BodyFrom(parser.lines, NthArticleLine(parser.lines, k) + 1)

\* positions before i of the fragments of type t
Earlier(t, i) == {j \in 1..(i - 1) : fragments[j].type = t}

SetMax(S) == CHOOSE x \in S : \A y \in S : y <= x

\* fragments are in the order of their lines, one per line
InDocumentOrder ==
  /\ \A i, j \in 1..Len(fragments) :
       i < j => fragments[i].char_start < fragments[j].char_start
  /\ \A i \in 1..Len(fragments) :
       /\ fragments[i].char_start \in 1..Len(parser.lines)
       /\ parser.lines[fragments[i].char_start].k = fragments[i].type

\* the parent of a paragraph is the nearest article fragment before it
ParagraphParentIsNearestArticle ==
  \A i \in 1..Len(fragments) :
    fragments[i].type = "paragraph" =>
      /\ Earlier("article", i) # {}
      /\ fragments[i].parent_number
           = fragments[SetMax(Earlier("article", i))].number

\* C17 as stated: fragments are in document order, every article fragment's
\* parent_number is the number of the most recent chapter fragment before it
\* in the list, and every paragraph fragment's parent_number is the number of
\* the nearest article fragment before it.
C17_EveryArticleHasChapterParent ==
  /\ InDocumentOrder
  /\ \A i \in 1..Len(fragments) :
       fragments[i].type = "article" =>
         /\ Earlier("chapter", i) # {}
         /\ fragments[i].parent_number
              = fragments[SetMax(Earlier("chapter", i))].number
  /\ ParagraphParentIsNearestArticle

\* C17 amended: fragments are in document order; an article fragment's
\* parent_number is the number of the most recent chapter fragment before it
\* in the list, and None when no chapter fragment precedes it; a paragraph
\* fragment's parent_number is the number of the nearest article fragment
\* before it.
C17_ParentsFollowDocumentOrder ==
  /\ InDocumentOrder
  /\ \A i \in 1..Len(fragments) :
       fragments[i].type = "article" =>
         fragments[i].parent_number
           = IF Earlier("chapter", i) = {} THEN NoParent
             ELSE fragments[SetMax(Earlier("chapter", i))].number
  /\ ParagraphParentIsNearestArticle

\* an article before any chapter, a chapter, an article under it and a
\* paragraph under that article
C17_Witness ==
  /\ pc = "parsed"
  /\ Len(fragments) = 4
  /\ fragments[1].type = "article" /\ fragments[1].parent_number = NoParent
  /\ fragments[2].type = "chapter"
  /\ fragments[3].type = "article" /\ fragments[3].parent_number = fragments[2].number
  /\ fragments[4].type = "paragraph" /\ fragments[4].parent_number = fragments[3].number

\* C18: a chapter line clears the current-article register, so that a
\* paragraph line that follows a chapter line with no article line between
\* them yields no paragraph fragment.
C18_ChapterClearsCurrentArticle ==
  /\ (mode = "parser" /\ parser.line_num > 1
      /\ parser.lines[parser.line_num - 1].k = "chapter")
       => parser.current_article = NoParent
  /\ \A i \in 1..Len(fragments) :
       (mode = "parser" /\ fragments[i].type = "paragraph") =>
         \E a \in 1..(fragments[i].char_start - 1) :
           /\ parser.lines[a].k = "article"
           /\ \A c \in (a + 1)..(fragments[i].char_start - 1) :
                parser.lines[c].k # "chapter"

\* C19: a constructed ledger holds one checklist entry for each article
\* fragment, keyed by the number of an article and by nothing else, and every
\* entry is false before the first mark_analyzed call.
C19_OneEntryPerArticle ==
  pc = "ledger" =>
    /\ Cardinality(DOMAIN checklist) = Len(articles)
    /\ DOMAIN checklist = {articles[i].number : i \in 1..Len(articles)}
    /\ last_call.k = 0 => \A n \in DOMAIN checklist : ~checklist[n]

\* C20: a result once attached to an entry stays attached: no later
\* mark_analyzed call replaces it.
C20_AttachedResultIsImmutable ==
  [][ \A n \in DOMAIN analysis_results :
        analysis_results[n] # NoResult
          => analysis_results'[n] = analysis_results[n] ]_vars

\* ------------------------------------------- harness for the batching
\* analyze_batch on a list of total articles with distinct numbers, for every
\* total up to MaxBatchInput and every batch size up to MaxBatchInput + 1.
MaxBatchInput == 7

BatchInput(total) == [i \in 1..total |-> DocumentFragment("article", i, NoParent)]

InitBatch ==
  /\ mode = "batch"
  /\ fragments \in {BatchInput(total) : total \in 0..MaxBatchInput}
  /\ checklist = new_checklist(fragments)
  /\ analysis_results = new_analysis_results(fragments)
  /\ batch_size \in 1..(MaxBatchInput + 1)
  /\ max_workers \in 1..MaxWorkers
  /\ pc = "stages"
  /\ stage = 0
  /\ task = <<>>
  /\ results = <<>>
  /\ mark_pos = 0
  /\ calls = <<>>
  /\ stage_results = <<>>
  /\ response = <<>>
  /\ last_call = NoCall
  /\ final = NoReturn
  /\ parser = NoParser

NextBatch == mode = "batch" /\ start_stage

SpecBatch == InitBatch /\ [][NextBatch]_vars

RECURSIVE Concat(_)
Concat(ss) == IF ss = <<>> THEN <<>> ELSE Head(ss) \o Concat(Tail(ss))

Batches == [b \in DOMAIN task |-> task[b].batch]

\* C21: the submitted batches are a partition of the input into contiguous
\* runs in the original order: their concatenation is the input, every batch
\* but the last holds exactly batch_size fragments, the last holds between 1
\* and batch_size, and there are ceil(N / batch_size) of them (none for an
\* empty input).
C21_BatchesPartitionTheInput ==
  pc = "collect" =>
    LET N == Len(articles)
        B == Len(task)
    IN /\ Concat(Batches) = [i \in 1..N |-> i]
       /\ \A b \in 1..(B - 1) : Len(Batches[b]) = batch_size
       /\ B > 0 => Len(Batches[B]) \in 1..batch_size
       /\ B * batch_size >= N
       /\ B > 0 => (B - 1) * batch_size < N
       /\ N = 0 => B = 0

C21_Witness ==
  /\ mode = "batch" /\ pc = "collect"
  /\ Len(task) >= 3
  /\ Len(task[Len(task)].batch) < batch_size

\* --------------------------------- the Analyzer call that never returns
\* self.model.generate is called with no timeout and the futures are awaited
\* with no timeout: a call that does not return keeps its worker thread, and
\* the task is never done.
analyzer_call_hangs(b) ==
  /\ pc = "collect"
  /\ task[b].st \in {"running", "fallback"}
  /\ task' = [task EXCEPT ![b].st = "hung"]
  /\ UNCHANGED <<parser, mode, fragments, checklist, analysis_results, batch_size,
                 max_workers, pc, stage, results, mark_pos, calls,
                 stage_results, response, last_call, final>>

NextDeadline ==
  \/ Next
  \/ \E b \in DOMAIN task : analyzer_call_hangs(b)

\* The pool runs every submitted task, the as_completed loop takes every
\* finished future and the run goes on after it: a step that stays possible
\* is taken.
SpecDeadline == Init /\ [][NextDeadline]_vars /\ WF_vars(NextDeadline)

Hung == \E b \in DOMAIN task : task[b].st = "hung"

\* C22: when an Analyzer call of a batch in flight does not return, the
\* batch is given up as failed, so that analyze_batch returns in the end
\* instead of hanging.
C22_HungCallEndsByDeadline == (pc = "collect" /\ Hung) ~> Returned

\* the article numbers of the document are pairwise distinct
DistinctNumbers ==
  \A i, j \in Positions : articles[i].number = articles[j].number => i = j

\* no Analyzer call of the last stage raised, and no task of it ended by an
\* exception
AnalyzerAlwaysSucceeded ==
  /\ NoTaskRaised
  /\ \A i \in DOMAIN calls : calls[i].group_failed = 0 /\ calls[i].single_failed = 0

\* C23: a run of one stage over a document whose article numbers are
\* pairwise distinct, with an Analyzer that always succeeds, for any batch
\* size and any number of workers: the stage yields exactly one result per
\* article, and the final report has is_complete = true, a completion rate
\* of 1.0 and an empty missing list.
C23_EndToEndComplete ==
  (/\ pc = "done" /\ final.kind = "report"
   /\ stage = 1
   /\ DistinctNumbers
   /\ AnalyzerAlwaysSucceeded) =>
    /\ Len(results) = Len(articles)
    /\ \A i \in Positions : Cardinality(ResultsFor(i)) = 1
    /\ \A k \in 1..Len(results) :
         results[k].success
         /\ results[k].fragment_number = articles[results[k].frag].number
    /\ final.completeness.is_complete
    /\ final.completeness.completion_rate[1] = final.completeness.completion_rate[2]
    /\ final.completeness.missing_articles = 0
    /\ final.completeness.missing_article_numbers = <<>>
    /\ final.completeness.analyzed_articles = Len(articles)

\* such a run over two articles analysed in one grouped call
C23_Witness ==
  /\ pc = "done" /\ final.kind = "report"
  /\ stage = 1
  /\ DistinctNumbers
  /\ AnalyzerAlwaysSucceeded
  /\ Len(articles) = 2
  /\ batch_size = 2
  /\ calls[1].group = 1 /\ calls[2].group = 1
  /\ final.completeness.is_complete

\* --------------------------------------- harness for the checklist text
MaxChecklistLines == 4

ChecklistLineKinds ==
  {[type |-> "chapter", number |-> n] : n \in 1..2} \cup
  {[type |-> "article", number |-> n] : n \in 1..MaxChecklistLines}

ChecklistDocuments ==
  {ls \in SeqsUpTo(ChecklistLineKinds, MaxChecklistLines) : Canonical(ls)}

\* the lines of the text: the title line and an empty line, for every article
\* its line, preceded by an empty line and a chapter line when its parent is
\* a chapter other than the one before, then an empty line and the three
\* summary lines.  Titles are left out.
RECURSIVE checklist_lines(_, _, _, _)
checklist_lines(arts, cl, i, current) ==
  IF i > Len(arts) THEN <<>>
  ELSE LET article == arts[i]
           header == article.parent_number # NoParent
                     /\ article.parent_number # current
           line == [k |-> "article", n |-> article.number,
                    done |-> checklist_get(cl, article.number)]
       IN  (IF header
            THEN <<[k |-> "blank"], [k |-> "chapter", n |-> article.parent_number]>>
            ELSE <<>>)
           \o <<line>>
           \o checklist_lines(arts, cl, i + 1,
                              IF header THEN article.parent_number ELSE current)

generate_checklist_text(arts, cl) ==
  <<[k |-> "title"], [k |-> "blank"]>>
  \o checklist_lines(arts, cl, 1, NoParent)
  \o <<[k |-> "blank"],
       [k |-> "total", v |-> Len(arts)],
       [k |-> "analyzed",
        v |-> Cardinality(DOMAIN cl) - Len(get_missing_articles(arts, cl))],
       [k |-> "percent", v |-> get_completion_rate(cl)]>>

InitChecklist ==
  /\ mode = "checklist"
  /\ fragments \in {parse(d) : d \in ChecklistDocuments}
  /\ checklist = new_checklist(fragments)
  /\ analysis_results = new_analysis_results(fragments)
  /\ batch_size = 1
  /\ max_workers = 1
  /\ pc = "ledger"
  /\ stage = 0
  /\ task = <<>>
  /\ results = <<>>
  /\ mark_pos = 0
  /\ calls = <<>>
  /\ stage_results = <<>>
  /\ response = <<>>
  /\ last_call = NoCall
  /\ final = NoReturn
  /\ parser = NoParser

\* the text is built for the prompt of a stage (pipeline line 96, web line 313)
build_checklist ==
  /\ pc = "ledger"
  /\ response' = generate_checklist_text(articles, checklist)
  /\ UNCHANGED <<parser, mode, fragments, checklist, analysis_results, batch_size,
                 max_workers, pc, stage, task, results, mark_pos, calls,
                 stage_results, last_call, final>>

NextChecklist ==
  \/ \E n \in 1..MaxChecklistLines : mark_analyzed(n, None)
  \/ build_checklist

SpecChecklist == InitChecklist /\ [][NextChecklist]_vars

IsEntryLine(l) == l.k \in {"chapter", "article"}

IsDoneLine(l) == l.k = "article" /\ l.done

\* the chapter fragment at position c is followed by an article before the
\* next chapter
HasArticles(frs, c) ==
  /\ frs[c].type = "chapter"
  /\ c < Len(frs) /\ frs[c + 1].type = "article"

\* the lines the claim asks for: one chapter line for every chapter that has
\* articles, one line for every article, in the order of the document
RECURSIVE ExpectedEntries(_, _, _)
ExpectedEntries(frs, cl, i) ==
  IF i > Len(frs) THEN <<>>
  ELSE (IF HasArticles(frs, i) THEN <<[k |-> "chapter", n |-> frs[i].number]>>
        ELSE IF frs[i].type = "article"
        THEN <<[k |-> "article", n |-> frs[i].number,
                done |-> checklist_get(cl, frs[i].number)]>>
        ELSE <<>>)
       \o ExpectedEntries(frs, cl, i + 1)

\* C24: the checklist text is a function of the ledger that leaves the
\* ledger unchanged; it lists every article once, in document order, marked
\* analyzed exactly when its entry is true, with one chapter line for every
\* chapter that has articles, placed before the chapter's first article; and
\* it ends with the three summary lines (total, analyzed, percentage), the
\* analyzed figure being the number of lines marked analyzed.
C24_ChecklistTextFaithful ==
  [][ (mode = "checklist" /\ response' # response) =>
        LET text == response'
            n == Len(text)
        IN  /\ UNCHANGED <<fragments, checklist, analysis_results>>
            /\ text = generate_checklist_text(articles, checklist)
            /\ SelectSeq(text, IsEntryLine) = ExpectedEntries(fragments, checklist, 1)
            /\ n >= 3
            /\ text[n - 2].k = "total" /\ text[n - 2].v = Len(articles)
            /\ text[n - 1].k = "analyzed"
            /\ text[n - 1].v = Len(SelectSeq(text, IsDoneLine))
            /\ text[n].k = "percent" ]_vars

\* ------------------- the web controller with use_react_agents = True
\* A stage whose key has a ReAct agent runs ConstitutionalityReActAgent:
\* analyze_batch analyses the articles one after another in the calling
\* thread; batch_size and max_workers are not used.
InitReact == mode = "react" /\ InitCommon

\* _execute_stage up to the call of agent.analyze_batch of the ReAct agent
execute_stage_react ==
  /\ pc = "stages"
  /\ stage < MaxStages
  /\ articles # <<>>
  /\ stage' = stage + 1
  /\ task' = <<>>
  /\ results' = <<>>
  /\ calls' = NoCalls(Len(articles))
  /\ pc' = "react"
  /\ UNCHANGED <<parser, mode, fragments, checklist, analysis_results, batch_size,
                 max_workers, mark_pos, stage_results, response, last_call, final>>

\* the article the loop of analyze_batch is at
react_article == Len(results) + 1

\* analyze_article: the ReAct loop ends with a final answer r
analyze_article_answers(r) ==
  /\ pc = "react"
  /\ react_article <= Len(articles)
  /\ results' = Append(results, Result(articles, react_article, TRUE, FALSE, Some(r)))
  /\ calls' = CountSingle(calls, react_article, FALSE)
  /\ UNCHANGED <<parser, mode, fragments, checklist, analysis_results, batch_size,
                 max_workers, pc, stage, task, mark_pos, stage_results,
                 response, last_call, final>>

\* analyze_article: the ReAct loop reaches max_iterations without an answer
analyze_article_gives_up ==
  /\ pc = "react"
  /\ react_article <= Len(articles)
  /\ results' = Append(results, Result(articles, react_article, FALSE, FALSE, None))
  /\ calls' = CountSingle(calls, react_article, FALSE)
  /\ UNCHANGED <<parser, mode, fragments, checklist, analysis_results, batch_size,
                 max_workers, pc, stage, task, mark_pos, stage_results,
                 response, last_call, final>>

\* self.model.generate raises in _generate_thought: nothing between it and
\* _execute_stage catches, so the stage ends with status "error" and the
\* results of the articles analysed so far are dropped
analyze_article_raises ==
  /\ pc = "react"
  /\ react_article <= Len(articles)
  /\ calls' = CountSingle(calls, react_article, TRUE)
  /\ results' = <<>>
  /\ stage_results' = Append(stage_results, [status |-> "error", issues_found |-> 0])
  /\ pc' = "stages"
  /\ UNCHANGED <<parser, mode, fragments, checklist, analysis_results, batch_size,
                 max_workers, stage, task, mark_pos, response, last_call, final>>

\* analyze_batch of the ReAct agent returns its list
react_analyze_batch_returns ==
  /\ pc = "react"
  /\ react_article > Len(articles)
  /\ pc' = "mark"
  /\ mark_pos' = 1
  /\ UNCHANGED <<parser, mode, fragments, checklist, analysis_results, batch_size,
                 max_workers, stage, task, results, calls, stage_results,
                 response, last_call, final>>

NextReact ==
  \/ NextWeb
  \/ execute_stage_react
  \/ /\ pc = "react" /\ react_article <= Len(articles)
     /\ \E r \in SingleResponses(mode, articles, react_article) :
          analyze_article_answers(r)
  \/ analyze_article_gives_up
  \/ analyze_article_raises
  \/ react_analyze_batch_returns

SpecReact == InitReact /\ [][NextReact]_vars

\* a stage over at least one article has ended
StageEnded == pc = "stages" /\ stage >= 1 /\ calls # <<>>

FailureResultFor(i) == \E k \in 1..Len(results) : results[k].frag = i /\ ~results[k].success

\* C25: with either kind of agent, an Analyzer error during the analysis of
\* one article is confined to that article: at the end of the stage the
\* failing article has a result with success = false, and every article whose
\* own analysis neither raised nor gave up is marked in the ledger.
C25_AnalyzerErrorConfinedToArticle ==
  (StageEnded /\ NoTaskRaised) =>
    \A i \in Positions :
      /\ calls[i].single_failed > 0 => FailureResultFor(i)
      /\ (calls[i].single_failed = 0 /\ ~FailureResultFor(i))
           => checklist_get(checklist, articles[i].number)

\* the Analyzer calls made so far for the batch of task b: its grouped calls
\* and the single-fragment calls of its fragments
CallsOfBatch(b) ==
  LET RECURSIVE Singles(_)
      Singles(s) == IF s = <<>> THEN 0
                    ELSE calls[Head(s)].single + Singles(Tail(s))
  IN  calls[task[b].batch[1]].group + Singles(task[b].batch)

\* C26: in a stage, every fragment is covered by at most one grouped call
\* and at most one single-fragment call; a single-fragment call is made for a
\* fragment exactly when its batch has size 1 or the grouped call of its
\* batch raised, and then only after that call has raised; nothing is
\* retried, so a batch of k > 1 fragments costs at most 1 + k Analyzer calls
\* and a batch of one fragment exactly one.
C26_CallProtocol ==
  pc \in {"collect", "mark"} =>
    /\ \A i \in Positions :
         LET b == TaskOf(i)
             k == Len(task[b].batch)
         IN  /\ calls[i].group <= 1
             /\ calls[i].single <= 1
             /\ k = 1 => calls[i].group = 0
             /\ (k > 1 /\ calls[i].single >= 1) => calls[i].group_failed = 1
             /\ (Returned /\ task[b].st # "raised") =>
                  (calls[i].single = 1 <=> (k = 1 \/ calls[i].group_failed = 1))
    /\ \A b \in DOMAIN task :
         LET k == Len(task[b].batch)
         IN  /\ k > 1 => CallsOfBatch(b) <= 1 + k
             /\ k = 1 => CallsOfBatch(b) <= 1
             /\ (k = 1 /\ Returned /\ task[b].st # "raised") => CallsOfBatch(b) = 1

\* a batch of two fragments whose grouped call raised and whose two fallback
\* calls were made: three calls
C26_Witness ==
  /\ Returned
  /\ Len(task) = 1 /\ Len(task[1].batch) = 2
  /\ calls[1].group_failed = 1
  /\ calls[1].single = 1 /\ calls[2].single = 1
  /\ CallsOfBatch(1) = 3

\* C27: the text of an article fragment is its header line followed, in
\* order, by every later line up to the next line that matches a chapter,
\* article or paragraph pattern; every line in between that matches no
\* pattern is part of the body, and no such line yields a fragment.
C27_BodyRunsToNextMarker ==
  (mode = "parser" /\ pc = "parsed") =>
    \A i \in 1..Len(fragments) :
      /\ parser.lines[fragments[i].char_start].k \in {"chapter", "article", "paragraph"}
      /\ fragments[i].type = "article" =>
           Words(fragments[i].text)
             = <<parser.lines[fragments[i].char_start]>>
               \o BodyFrom(parser.lines, fragments[i].char_start + 1)

\* C28: every report of a ledger built from a fragment list of the parser,
\* repeated article numbers included, has 0 <= analyzed_articles <=
\* total_articles, analyzed_articles + missing_articles = total_articles, and
\* a completion rate equal to analyzed_articles / total_articles.
C28_ReportCountsConsistent ==
  pc = "ledger" =>
    LET report == get_completion_report(articles, checklist)
    IN  /\ 0 <= report.analyzed_articles
        /\ report.analyzed_articles <= report.total_articles
        /\ report.analyzed_articles + report.missing_articles = report.total_articles
        /\ report.total_articles > 0 =>
             report.completion_rate[1] * report.total_articles
               = report.analyzed_articles * report.completion_rate[2]

\* C29: in a run of several stages over one ledger, a final report with
\* is_complete = true means that every article has a success result in every
\* stage that was executed; stated for the last executed stage, whose result
\* list the run still holds when the report is made.
C29_CompleteMeansEveryStageSucceeded ==
  (/\ mode = "pipeline" /\ pc = "done" /\ final.kind = "report"
   /\ stage >= 1
   /\ final.completeness.is_complete) =>
    \A i \in Positions : SuccessResultFor(i)

\* C30: whatever the outcomes of the stages, the web controller's report has
\* ready_for_approval = true only when its completeness report has
\* is_complete = true, and gives the verdict "ready to be adopted"
\* (quality_score >= 90 and every stage successful) only for a complete
\* analysis.
C30_ReadyOnlyIfComplete ==
  (mode \in {"web", "react"} /\ pc = "done" /\ final.kind = "report") =>
    /\ final.overall.ready_for_approval => final.completeness.is_complete
    /\ final.overall.verdict_status = "success" => final.completeness.is_complete

====
